---- MODULE Spec2Model ----
(***************************************************************************)
(* Model of the OpenAPI v3 document builder of pkg/builder3/openapi.go:    *)
(* the top-level build loop over web services and route groups, parameter  *)
(* building and hoisting, operation building, and the recursive, memoised  *)
(* resolution of type names into schema definitions.                       *)
(*                                                                         *)
(* Strings the code inspects character by character (path templates,      *)
(* display names) are sequences of one-character strings.                  *)
(***************************************************************************)
EXTENDS Integers, Sequences, FiniteSets, TLC

\* ------------------------------------------------------------------ bounds
\* web services handed to one build
MaxWS == 2
\* routes sharing one path template in the hoisting and operation specifications
MaxRoutes == 2
\* parameter declarations over all routes of one such group
MaxDecls == 4
\* declared error responses of one route
MaxResponses == 2
\* dependency names listed by one definition
MaxDeps == 2
\* frames of buildDefinitionRecursively the goroutine stack holds
MaxStack == 6

\* ------------------------------------------------------------- error kinds
NoError == "nil"
DuplicatePath == "DuplicatePath"
DuplicateParameter == "DuplicateParameter"
UnsupportedParameterKind == "UnsupportedParameterKind"
InvalidRequiredness == "InvalidRequiredness"
UnknownType == "UnknownType"
DuplicateMediaType == "DuplicateMediaType"
CollaboratorError == "CollaboratorError"
\* the Go runtime's fatal error when the recursion outgrows the stack
StackOverflow == "StackOverflow"

ParameterErrors == {DuplicateParameter, UnsupportedParameterKind, InvalidRequiredness}

\* ------------------------------------------------------------ small helpers
Range(s) == {s[i] : i \in 1..Len(s)}

EmptyMap == <<>>

IsPrefixOf(p, s) == Len(p) <= Len(s) /\ SubSeq(s, 1, Len(p)) = p

\* strings.HasSuffix
HasSuffix(s, suffix) ==
    /\ Len(suffix) <= Len(s)
    /\ SubSeq(s, Len(s) - Len(suffix) + 1, Len(s)) = suffix

\* ------------------------------------------------------------ path templates
FooGreedy == <<"/", "f", "/", "{", "p", ":", "*", "}">>
FooPlain == <<"/", "f", "/", "{", "p", "}">>
BarPlain == <<"/", "b", "/", "{", "p", "}">>
BarInternal == <<"/", "b", "/", "i">>
HiddenPlain == <<"/", "x", "/", "y">>
FooRoot == <<"/", "f">>
BarRoot == <<"/", "b">>
HiddenRoot == <<"/", "x">>

\* config.IgnorePrefixes
IgnorePrefixes == {<<"/", "x">>, <<"/", "b", "/", "i">>}

\* util.Trie.HasPrefix over the configured ignore prefixes
pathsToIgnoreHasPrefix(path) == \E p \in IgnorePrefixes : IsPrefixOf(p, path)

\* the trailing {NAME:*} marker of go-swagger becomes {NAME}
normalizePath(path) ==
    IF HasSuffix(path, <<":", "*", "}">>)
    THEN SubSeq(path, 1, Len(path) - 3) \o <<"}">>
    ELSE path

\* ---------------------------------------------------------------- parameters
PathParameterKind == "path"
QueryParameterKind == "query"
BodyParameterKind == "body"
HeaderParameterKind == "header"
FormParameterKind == "form"

\* restful.ParameterData: name, kind and the required flag
Param(name, kind, required) == [name |-> name, kind |-> kind, required |-> required]

PathRequired == Param("p", PathParameterKind, TRUE)
PathOptional == Param("p", PathParameterKind, FALSE)
Pretty == Param("q", QueryParameterKind, FALSE)
HeaderParam == Param("h", HeaderParameterKind, FALSE)
BodyParam == Param("b", BodyParameterKind, TRUE)
FormParam == Param("f", FormParameterKind, FALSE)

ParamPool == {PathRequired, PathOptional, Pretty, BodyParam, FormParam}

mapKeyFromParam(param) == <<param.name, param.kind>>

\* the parameter of the document: name, location tag and the required flag
buildParameter(restParam) ==
    LET ret(in) == [name |-> restParam.name, in |-> in, required |-> restParam.required]
    IN  CASE restParam.kind = PathParameterKind ->
               IF ~restParam.required
               THEN [param |-> ret("path"), err |-> InvalidRequiredness]
               ELSE [param |-> ret("path"), err |-> NoError]
          [] restParam.kind = QueryParameterKind ->
               [param |-> ret("query"), err |-> NoError]
          [] restParam.kind = HeaderParameterKind ->
               [param |-> ret("header"), err |-> NoError]
          [] OTHER ->
               [param |-> ret(""), err |-> UnsupportedParameterKind]

RECURSIVE buildParametersFrom(_, _, _)
buildParametersFrom(restParam, i, ret) ==
    IF i > Len(restParam)
    THEN [params |-> ret, err |-> NoError]
    ELSE LET b == buildParameter(restParam[i])
         IN  IF b.err # NoError
             THEN [params |-> Append(ret, b.param), err |-> b.err]
             ELSE buildParametersFrom(restParam, i + 1, Append(ret, b.param))

buildParameters(restParam) == buildParametersFrom(restParam, 1, <<>>)

\* ------------------------------------------------------------------- routes
\* codes a route or the common-responses table may carry
StatusOK == 200
StatusCodes == {StatusOK, 404}

NoSample == "nil"

\* restful.Route: the fields the builder reads
Route(method, path, params) ==
    [method |-> method, path |-> path, params |-> params,
     responseErrors |-> <<>>, writeSample |-> NoSample, consumes |-> <<"json">>]

\* one slice of routes per path template, in registration order
groupRoutesByPath(routes) ==
    [p \in {routes[i].path : i \in 1..Len(routes)} |->
        SelectSeq(routes, LAMBDA r : r.path = p)]

\* ------------------------------------------------------ findCommonParameters
\* the inner loop over route.ParameterDocs; dup is routeParamDuplicateMap
RECURSIVE scanParameterDocs(_, _, _, _)
scanParameterDocs(st, params, i, dup) ==
    IF i > Len(params)
    THEN st
    ELSE LET key == mapKeyFromParam(params[i])
             old == IF key \in DOMAIN st.count THEN st.count[key] ELSE 0
         IN  IF key \in dup
             THEN [st EXCEPT !.err = DuplicateParameter]
             ELSE scanParameterDocs(
                      [count |-> (key :> old + 1) @@ st.count,
                       data |-> (key :> params[i]) @@ st.data,
                       err |-> NoError],
                      params, i + 1, dup \cup {key})

\* the outer loop over routes; st holds paramOpsCountByName and
\* paramNameKindToDataMap
RECURSIVE scanRoutes(_, _, _)
scanRoutes(st, routes, r) ==
    IF r > Len(routes)
    THEN st
    ELSE LET s == scanParameterDocs(st, routes[r].params, 1, {})
         IN  IF s.err # NoError THEN s ELSE scanRoutes(s, routes, r + 1)

\* keys declared by some route, kind not body
hoistCandidatesOnAnyRoute(count, data, n) ==
    {key \in DOMAIN count : count[key] >= 1 /\ data[key].kind # BodyParameterKind}

\* the keys the second loop builds: declared by every route, kind not body
hoistCandidates(count, data, n) ==
    {key \in DOMAIN count : count[key] = n /\ data[key].kind # BodyParameterKind}

\* The outcomes of findCommonParameters(routes). The second loop ranges over a
\* Go map, whose order is not fixed: when a candidate fails to build, the error
\* is that of any failing candidate, and the map returned beside it holds the
\* candidates built before it.
findCommonParameters(routes) ==
    LET st == scanRoutes([count |-> EmptyMap, data |-> EmptyMap, err |-> NoError],
                         routes, 1)
        cand == hoistCandidates(st.count, st.data, Len(routes))
        built(key) == buildParameter(st.data[key])
        bad == {c \in cand : built(c).err # NoError}
    IN  IF st.err # NoError
        THEN {[params |-> EmptyMap, err |-> st.err]}
        ELSE IF bad = {}
        THEN {[params |-> [c \in cand |-> built(c).param], err |-> NoError]}
        ELSE {[params |-> [c \in S |-> built(c).param], err |-> built(f).err] :
                 f \in bad, S \in SUBSET (cand \ bad)}

\* ------------------------------------------------------------ sortParameters
InRank(in) ==
    CASE in = "header" -> 1 [] in = "path" -> 2 [] in = "query" -> 3 [] OTHER -> 0

NameRank(name) ==
    CASE name = "b" -> 1 [] name = "f" -> 2 [] name = "h" -> 3
      [] name = "p" -> 4 [] name = "q" -> 5 [] OTHER -> 0

\* by location, then by name
parameterLess(a, b) ==
    \/ InRank(a.in) < InRank(b.in)
    \/ InRank(a.in) = InRank(b.in) /\ NameRank(a.name) < NameRank(b.name)

Occurrences(e, s) == Cardinality({i \in 1..Len(s) : s[i] = e})

\* sort.Sort is not stable: every sorted arrangement of the list is an outcome
sortParameters(list) ==
    {s \in [1..Len(list) -> Range(list)] :
        /\ \A e \in Range(list) : Occurrences(e, s) = Occurrences(e, list)
        /\ \A i \in 1..(Len(list) - 1) : ~parameterLess(s[i + 1], s[i])}

RECURSIVE mapValues(_)
\* the values of a Go map, in one order
mapValues(m) ==
    IF DOMAIN m = {}
    THEN <<>>
    ELSE LET k == CHOOSE x \in DOMAIN m : TRUE
         IN  <<m[k]>> \o mapValues([x \in DOMAIN m \ {k} |-> m[x]])

\* pathItem.Parameters: the web service's parameters, then the hoisted ones,
\* sorted
pathItemParameters(commonParams, inPathCommonParamsMap) ==
    sortParameters(commonParams \o mapValues(inPathCommonParamsMap))

\* a build that never finds a template installed
pathExistsNever(allPaths, path) == FALSE

\* the lookup o.spec.Paths.Paths[path]
pathExists(allPaths, path) == path \in DOMAIN allPaths

\* ------------------------------------------------------------ schema names
\* the type names a route may refer to: three that may have a definition, and
\* one primitive
TypeNames == {"A", "B", "C"}
PrimitiveNames == {"string"}

\* common.GetOpenAPITypeFormat: the type and format of a primitive, "" otherwise
GetOpenAPITypeFormat(name) ==
    IF name \in PrimitiveNames
    THEN [type |-> name, format |-> ""]
    ELSE [type |-> "", format |-> ""]

DisplayA == <<"x", "/", "A">>
DisplayB == <<"x", "~", "B">>
DisplayC == <<"C">>

\* config.GetDefinitionName, as one build may be configured: every type under
\* its own display name, or C under the display name of B
DefinitionNamers ==
    { [t \in TypeNames |-> CASE t = "A" -> DisplayA [] t = "B" -> DisplayB
                             [] OTHER -> DisplayC],
      [t \in TypeNames |-> CASE t = "A" -> DisplayA [] OTHER -> DisplayB] }

\* strings.Replace of "~" by "~0", then of "/" by "~1"
RECURSIVE EscapeJsonPointer(_)
EscapeJsonPointer(p) ==
    IF p = <<>>
    THEN <<>>
    ELSE (CASE Head(p) = "~" -> <<"~", "0">>
            [] Head(p) = "/" -> <<"~", "1">>
            [] OTHER -> <<Head(p)>>) \o EscapeJsonPointer(Tail(p))

SchemaPrefix == <<"#", "/", "components", "/", "schemas", "/">>

VARIABLES
    definitions,      \* o.definitions: type name -> its dependency names
    definitionNames,  \* o.config.GetDefinitionName
    config            \* the rest of o.config

\* a lookup that never finds the entry
schemaExistsNever(schemas, uniqueName) == FALSE

\* the lookup o.spec.Components.Schemas[uniqueName]
schemaExists(schemas, uniqueName) == uniqueName \in DOMAIN schemas

\* a definition that is not entered into the map before its dependencies
insertSchemaSkipped(st, uniqueName, name) == st

\* the assignment o.spec.Components.Schemas[uniqueName] = schema, made before
\* the dependencies are visited
insertSchema(st, uniqueName, name) ==
    [st EXCEPT
       !.schemas = (uniqueName :> [definitionOf |-> name]) @@ @,
       !.inserts = (uniqueName :>
                      (IF uniqueName \in DOMAIN @ THEN @[uniqueName] ELSE 0) + 1) @@ @]

\* st holds o.spec.Components.Schemas, how often each of its keys was assigned,
\* the deepest frame reached and the error; depth is the frame of this call.
RECURSIVE buildDefinitionRecursively(_, _, _)
RECURSIVE visitDependencies(_, _, _, _)
buildDefinitionRecursively(st, name, depth) ==
    LET uniqueName == definitionNames[name]
        here == [st EXCEPT !.depth = IF depth > @ THEN depth ELSE @]
    IN  IF depth > MaxStack
        THEN [here EXCEPT !.err = StackOverflow]
        ELSE IF schemaExists(st.schemas, uniqueName)
        THEN here
        ELSE IF name \in DOMAIN definitions
        THEN visitDependencies(insertSchema(here, uniqueName, name),
                               definitions[name], 1, depth)
        ELSE [here EXCEPT !.err = UnknownType]

\* a loop that ends after its first dependency
afterFirstDependency(r, deps, i, depth) == r

\* after the call for deps[i] returned r: its error ends the loop
afterDependency(r, deps, i, depth) ==
    IF r.err # NoError THEN r ELSE visitDependencies(r, deps, i + 1, depth)

\* the loop over item.Dependencies
visitDependencies(st, deps, i, depth) ==
    IF i > Len(deps)
    THEN st
    ELSE afterDependency(buildDefinitionRecursively(st, deps[i], depth + 1),
                         deps, i, depth)

\* the reference to the definition, once buildDefinitionRecursively returned r
definitionReference(r, name) ==
    IF r.err # NoError
    THEN [st |-> r, ref |-> <<>>, err |-> r.err]
    ELSE [st |-> r,
          ref |-> SchemaPrefix \o EscapeJsonPointer(definitionNames[name]),
          err |-> NoError]

buildDefinitionForType(st, name) ==
    definitionReference(buildDefinitionRecursively(st, name, 1), name)

NilSchema == [isNil |-> TRUE]

\* the schema that refers to a definition, once buildDefinitionForType returned r
referenceSchema(r) ==
    IF r.err # NoError
    THEN [st |-> r.st, schema |-> NilSchema, err |-> r.err]
    ELSE [st |-> r.st,
          schema |-> [isNil |-> FALSE, type |-> <<>>, format |-> "", ref |-> r.ref],
          err |-> NoError]

toSchema(st, name) ==
    IF GetOpenAPITypeFormat(name).type # ""
    THEN [st |-> st,
          schema |-> [isNil |-> FALSE, type |-> <<GetOpenAPITypeFormat(name).type>>,
                      format |-> GetOpenAPITypeFormat(name).format, ref |-> <<>>],
          err |-> NoError]
    ELSE referenceSchema(buildDefinitionForType(st, name))

\* ---------------------------------------------------------------- responses
NilResponse == [isNil |-> TRUE]

\* the loop over mediaTypes, filling ret.Content
RECURSIVE fillContent(_, _, _, _)
fillContent(content, mediaTypes, i, schema) ==
    IF i > Len(mediaTypes)
    THEN [content |-> content, err |-> NoError]
    ELSE IF mediaTypes[i] \in DOMAIN content
    THEN [content |-> content, err |-> DuplicateMediaType]
    ELSE fillContent((mediaTypes[i] :> schema) @@ content, mediaTypes, i + 1, schema)

\* the response, once its content map c was filled
responseWithContent(st, c, description) ==
    IF c.err # NoError
    THEN [st |-> st, response |-> NilResponse, err |-> c.err]
    ELSE [st |-> st,
          response |-> [isNil |-> FALSE, description |-> description,
                        content |-> c.content],
          err |-> NoError]

\* the response, once toSchema returned s for its model
responseOfSchema(s, description, mediaTypes) ==
    IF s.err # NoError
    THEN [st |-> s.st, response |-> NilResponse, err |-> s.err]
    ELSE responseWithContent(s.st, fillContent(EmptyMap, mediaTypes, 1, s.schema),
                             description)

buildResponse(st, model, description, mediaTypes) ==
    responseOfSchema(toSchema(st, model), description, mediaTypes)

\* ----------------------------------------------------------- buildOperations
NoDefault == "nil"

RECURSIVE buildResponseErrors(_, _, _, _)
\* the assignment of buildResponse's results b to StatusCodeResponses[code] and
\* err, and the rest of the loop
assignResponse(b, responses, route, i) ==
    IF b.err # NoError
    THEN [st |-> b.st,
          responses |-> (route.responseErrors[i].code :> b.response) @@ responses,
          err |-> b.err]
    ELSE buildResponseErrors(
             b.st, (route.responseErrors[i].code :> b.response) @@ responses,
             route, i + 1)

\* the loop over route.ResponseErrors, filling StatusCodeResponses
buildResponseErrors(st, responses, route, i) ==
    IF i > Len(route.responseErrors)
    THEN [st |-> st, responses |-> responses, err |-> NoError]
    ELSE assignResponse(
             buildResponse(st, route.responseErrors[i].model,
                           route.responseErrors[i].message, route.consumes),
             responses, route, i)

\* the assignment of buildResponse's results b to StatusCodeResponses[200] and err
assignStatusOK(b, responses) ==
    [st |-> b.st, responses |-> (StatusOK :> b.response) @@ responses, err |-> b.err]

\* a write sample stands for a 200 response when none was declared
withWriteSample(st, responses, route) ==
    IF DOMAIN responses = {} /\ route.writeSample # NoSample
    THEN assignStatusOK(buildResponse(st, route.writeSample, "OK", route.consumes),
                        responses)
    ELSE [st |-> st, responses |-> responses, err |-> NoError]

\* a table whose entries replace the route's own
withCommonResponsesOverriding(responses, common) == common @@ responses

\* the entries of config.CommonResponses under codes not present yet
withCommonResponses(responses, common) == responses @@ common

\* a fallback that is taken whatever the responses
defaultResponseAlways(responses, default) == default

\* ret.Responses.Default: config.DefaultResponse when no status code is present
defaultResponse(responses, default) ==
    IF DOMAIN responses = {} THEN default ELSE NoDefault

\* a filter that keeps every declared parameter
isCommonNever(inPathCommonParamsMap, param) == FALSE

\* the lookup inPathCommonParamsMap[mapKeyFromParam(param)]
isCommon(inPathCommonParamsMap, param) ==
    mapKeyFromParam(param) \in DOMAIN inPathCommonParamsMap

RECURSIVE buildNonCommonParameters(_, _, _, _)
\* the parameter b built for params[i] is appended, unless building it failed
appendParameter(b, params, inPathCommonParamsMap, i, ret) ==
    IF b.err # NoError
    THEN [params |-> ret, err |-> b.err]
    ELSE buildNonCommonParameters(params, inPathCommonParamsMap, i + 1,
                                  Append(ret, b.param))

\* the loop over route.ParameterDocs, building the parameters not hoisted
buildNonCommonParameters(params, inPathCommonParamsMap, i, ret) ==
    IF i > Len(params)
    THEN [params |-> ret, err |-> NoError]
    ELSE IF isCommon(inPathCommonParamsMap, params[i])
    THEN buildNonCommonParameters(params, inPathCommonParamsMap, i + 1, ret)
    ELSE appendParameter(buildParameter(params[i]), params, inPathCommonParamsMap,
                         i, ret)

Operation(responses, default, parameters) ==
    [responses |-> responses, default |-> default, parameters |-> parameters]

\* the common responses, the default response and the parameters, once the
\* responses of the route are built
finishOperation(st, merged, own) ==
    [st |-> st,
     op |-> Operation(merged, defaultResponse(merged, config.DefaultResponse),
                      own.params),
     err |-> own.err]

\* after the write sample was looked at
afterWriteSample(sampled, route, inPathCommonParamsMap) ==
    IF sampled.err # NoError
    THEN [st |-> sampled.st, op |-> Operation(sampled.responses, NoDefault, <<>>),
          err |-> sampled.err]
    ELSE finishOperation(
             sampled.st,
             withCommonResponses(sampled.responses, config.CommonResponses),
             buildNonCommonParameters(route.params, inPathCommonParamsMap, 1, <<>>))

\* after the loop over route.ResponseErrors
afterResponseErrors(declared, route, inPathCommonParamsMap) ==
    IF declared.err # NoError
    THEN [st |-> declared.st, op |-> Operation(declared.responses, NoDefault, <<>>),
          err |-> declared.err]
    ELSE afterWriteSample(withWriteSample(declared.st, declared.responses, route),
                          route, inPathCommonParamsMap)

\* the operation of one route, the schema state it leaves, and the error
buildOperations(st, route, inPathCommonParamsMap) ==
    IF route.method \in config.operationIDFails
    THEN [st |-> st, op |-> Operation(EmptyMap, NoDefault, <<>>),
          err |-> CollaboratorError]
    ELSE afterResponseErrors(buildResponseErrors(st, EmptyMap, route, 1),
                             route, inPathCommonParamsMap)

\* ------------------------------------------------------------ web services
\* restful.WebService: root path, PathParameters() and Routes()
WebService(rootPath, pathParameters, routes) ==
    [rootPath |-> rootPath, pathParameters |-> pathParameters, routes |-> routes]

\* The web services a build may be handed.
WebServicePool ==
    { \* GET with path and pretty, POST with path alone, on a greedy template
      WebService(FooRoot, <<>>,
          <<Route("GET", FooGreedy, <<PathRequired, Pretty>>),
            Route("POST", FooGreedy, <<PathRequired>>)>>),
      \* the same template, written without the greedy marker
      WebService(FooRoot, <<>>, <<Route("GET", FooPlain, <<PathRequired>>)>>),
      \* both spellings of the template in one web service
      WebService(FooRoot, <<>>,
          <<Route("GET", FooGreedy, <<PathRequired>>),
            Route("POST", FooPlain, <<PathRequired>>)>>),
      \* a form parameter on the only route of the template
      WebService(FooRoot, <<>>, <<Route("GET", FooPlain, <<FormParam>>)>>),
      \* an optional path parameter on one of two routes
      WebService(BarRoot, <<>>,
          <<Route("GET", BarPlain, <<PathOptional>>),
            Route("POST", BarPlain, <<>>)>>),
      \* an optional path parameter on every route
      WebService(BarRoot, <<>>,
          <<Route("GET", BarPlain, <<PathOptional>>),
            Route("POST", BarPlain, <<PathOptional>>)>>),
      \* optional on the first route, required on the last
      WebService(BarRoot, <<>>,
          <<Route("GET", BarPlain, <<PathOptional>>),
            Route("POST", BarPlain, <<PathRequired>>)>>),
      \* a body parameter on every route
      WebService(BarRoot, <<>>,
          <<Route("GET", BarPlain, <<PathRequired, BodyParam>>),
            Route("POST", BarPlain, <<PathRequired, BodyParam>>)>>),
      \* the routes of the test: header and form parameters on GET alone
      WebService(BarRoot, <<>>,
          <<Route("GET", BarPlain, <<PathRequired, Pretty, HeaderParam, FormParam>>),
            Route("POST", BarPlain, <<PathRequired, Pretty>>)>>),
      \* an optional path parameter of the web service itself
      WebService(BarRoot, <<PathOptional>>, <<Route("GET", BarPlain, <<>>)>>),
      \* a parameter of the web service that one route declares again
      WebService(BarRoot, <<PathRequired>>,
          <<Route("GET", BarPlain, <<PathRequired, Pretty>>),
            Route("POST", BarPlain, <<Pretty>>)>>),
      \* the same key twice on one route
      WebService(BarRoot, <<>>, <<Route("GET", BarPlain, <<Pretty, Pretty>>)>>),
      \* one ignored template beside a retained one
      WebService(BarRoot, <<>>,
          <<Route("GET", BarInternal, <<FormParam>>),
            Route("GET", BarPlain, <<PathRequired>>)>>),
      \* a web service under an ignored root
      WebService(HiddenRoot, <<PathOptional>>,
          <<Route("GET", HiddenPlain, <<FormParam>>)>>) }

SeqsUpTo(S, n) == UNION {[1..k -> S] : k \in 0..n}

\* ----------------------------------------------------------------- the state
VARIABLES
    webServices,   \* the argument of BuildOpenAPISpec
    pc,            \* where the build stands
    wsIdx,         \* index of w in the loop over webServices
    commonParams,  \* the parameters built from w.PathParameters()
    groups,        \* groupRoutesByPath(w.Routes()), the map being ranged over
    pending,       \* its keys not visited yet
    paths,         \* o.spec.Paths.Paths
    installs,      \* how often each template was assigned into paths
    err,           \* the error buildOpenAPISpec returns
    result         \* what BuildOpenAPISpec returned

buildVars == <<webServices, pc, wsIdx, commonParams, groups, pending, paths,
               installs, err, result>>

NoResult == [returned |-> FALSE]

BuildInit ==
    /\ webServices \in SeqsUpTo(WebServicePool, MaxWS)
    /\ pc = "loop"
    /\ wsIdx = 1
    /\ commonParams = <<>>
    /\ groups = EmptyMap
    /\ pending = {}
    /\ paths = EmptyMap
    /\ installs = EmptyMap
    /\ err = NoError
    /\ result = NoResult

InstallCount(counts, path) == IF path \in DOMAIN counts THEN counts[path] ELSE 0

\* the root path of w is under an ignored prefix: continue with the next one
SkipWebService ==
    /\ pc = "loop"
    /\ wsIdx <= Len(webServices)
    /\ pathsToIgnoreHasPrefix(webServices[wsIdx].rootPath)
    /\ wsIdx' = wsIdx + 1
    /\ UNCHANGED <<webServices, pc, commonParams, groups, pending, paths,
                   installs, err, result>>

\* build w's own parameters, then start ranging over its route groups
EnterWebService ==
    /\ pc = "loop"
    /\ wsIdx <= Len(webServices)
    /\ ~pathsToIgnoreHasPrefix(webServices[wsIdx].rootPath)
    /\ LET w == webServices[wsIdx]
           built == buildParameters(w.pathParameters)
       IN  IF built.err # NoError
           THEN /\ err' = built.err
                /\ pc' = "return"
                /\ UNCHANGED <<commonParams, groups, pending>>
           ELSE /\ commonParams' = built.params
                /\ groups' = groupRoutesByPath(w.routes)
                /\ pending' = DOMAIN groupRoutesByPath(w.routes)
                /\ pc' = "range"
                /\ err' = err
    /\ UNCHANGED <<webServices, wsIdx, paths, installs, result>>

\* one iteration of the loop over the route groups of w, in any map order
VisitGroup(rawPath) ==
    /\ pc = "range"
    /\ rawPath \in pending
    /\ LET path == normalizePath(rawPath)
       IN  IF pathsToIgnoreHasPrefix(path)
           THEN /\ pending' = pending \ {rawPath}
                /\ UNCHANGED <<pc, paths, installs, err>>
           ELSE \E found \in findCommonParameters(groups[rawPath]) :
                  IF found.err # NoError
                  THEN /\ err' = found.err
                       /\ pc' = "return"
                       /\ UNCHANGED <<pending, paths, installs>>
                  ELSE IF pathExists(paths, path)
                  THEN /\ err' = DuplicatePath
                       /\ pc' = "return"
                       /\ UNCHANGED <<pending, paths, installs>>
                  ELSE \E parameters \in pathItemParameters(commonParams, found.params) :
                         \* the loop over routes builds no operation
                         /\ paths' = (path :> [parameters |-> parameters,
                                               operations |-> EmptyMap]) @@ paths
                         /\ installs' = (path :> InstallCount(installs, path) + 1)
                                            @@ installs
                         /\ pending' = pending \ {rawPath}
                         /\ UNCHANGED <<pc, err>>
    /\ UNCHANGED <<webServices, wsIdx, commonParams, groups, result>>

\* every group of w was visited: on to the next web service
LeaveWebService ==
    /\ pc = "range"
    /\ pending = {}
    /\ wsIdx' = wsIdx + 1
    /\ pc' = "loop"
    /\ UNCHANGED <<webServices, commonParams, groups, pending, paths, installs,
                   err, result>>

\* the loop over webServices is over: buildOpenAPISpec returns nil
FinishLoop ==
    /\ pc = "loop"
    /\ wsIdx > Len(webServices)
    /\ err' = NoError
    /\ pc' = "return"
    /\ UNCHANGED <<webServices, wsIdx, commonParams, groups, pending, paths,
                   installs, result>>

\* BuildOpenAPISpec returns o.spec and err
Return ==
    /\ pc = "return"
    /\ result' = [returned |-> TRUE, spec |-> [isNil |-> FALSE, paths |-> paths],
                  err |-> err]
    /\ pc' = "done"
    /\ UNCHANGED <<webServices, wsIdx, commonParams, groups, pending, paths,
                   installs, err>>

\* ------------------------------------------- hoisting on one path template
Methods == <<"GET", "POST", "PUT", "PATCH">>

\* what a web service may declare for all its paths, and builds without error
WebServiceParameters == {<<>>, <<PathRequired>>, <<Pretty>>}

EmptySchemaState ==
    [schemas |-> EmptyMap, inserts |-> EmptyMap, depth |-> 0, err |-> NoError]

VARIABLES
    hRoutes,      \* the routes registered on one path template
    hPhase,       \* "register", "found", "failed" or "assembled"
    hFound,       \* what findCommonParameters returned for them
    hParameters,  \* pathItem.Parameters
    hOperations   \* what buildOperations returned, route by route

hoistVars == <<hRoutes, hPhase, hFound, hParameters, hOperations>>

HoistIdle ==
    /\ hRoutes = <<>>
    /\ hPhase = "idle"
    /\ hFound = [params |-> EmptyMap, err |-> NoError]
    /\ hParameters = <<>>
    /\ hOperations = <<>>

HoistInit ==
    /\ hRoutes = <<>>
    /\ hPhase = "register"
    /\ hFound = [params |-> EmptyMap, err |-> NoError]
    /\ hParameters = <<>>
    /\ hOperations = <<>>

RECURSIVE SumLen(_)
SumLen(lists) == IF lists = <<>> THEN 0 ELSE Len(Head(lists)) + SumLen(Tail(lists))

Declarations(routes) == SumLen([i \in 1..Len(routes) |-> routes[i].params])

\* ws.Route(...): one more route on the template
RegisterRoute ==
    /\ hPhase = "register"
    /\ Len(hRoutes) < MaxRoutes
    /\ hRoutes' = Append(hRoutes, Route(Methods[Len(hRoutes) + 1], FooPlain, <<>>))
    /\ UNCHANGED <<hPhase, hFound, hParameters, hOperations>>

\* RouteBuilder.Param(...): one more parameter on the last route
RegisterParam(param) ==
    /\ hPhase = "register"
    /\ hRoutes # <<>>
    /\ Declarations(hRoutes) < MaxDecls
    /\ hRoutes' = [hRoutes EXCEPT ![Len(hRoutes)].params = Append(@, param)]
    /\ UNCHANGED <<hPhase, hFound, hParameters, hOperations>>

\* o.findCommonParameters(routes) for the routes of the template
FindCommonParameters ==
    /\ hPhase = "register"
    /\ hRoutes # <<>>
    /\ \E found \in findCommonParameters(hRoutes) :
         /\ hFound' = found
         /\ hPhase' = IF found.err # NoError THEN "failed" ELSE "found"
    /\ UNCHANGED <<hRoutes, hParameters, hOperations>>

\* the path-level parameter list of the template, and the operation of each of
\* its routes built against the hoisted map
AssemblePath(wsParams) ==
    /\ hPhase = "found"
    /\ \E parameters \in pathItemParameters(buildParameters(wsParams).params,
                                            hFound.params) :
         hParameters' = parameters
    /\ hOperations' = [i \in 1..Len(hRoutes) |->
                          buildOperations(EmptySchemaState, hRoutes[i], hFound.params)]
    /\ hPhase' = "assembled"
    /\ UNCHANGED <<hRoutes, hFound>>

HoistNext ==
    \/ RegisterRoute
    \/ \E param \in ParamPool : RegisterParam(param)
    \/ FindCommonParameters
    \/ \E wsParams \in WebServiceParameters : AssemblePath(wsParams)

\* -------------------------------------------------- one operation's responses
\* the responses of a common-responses table: *spec3.Response values of the caller
CommonNotFound == [isNil |-> FALSE, description |-> "common404", content |-> EmptyMap]
CommonOK == [isNil |-> FALSE, description |-> "common200", content |-> EmptyMap]
ConfiguredDefault == "default"

\* config.CommonResponses, as one build may be configured
CommonResponseTables ==
    { EmptyMap,
      (404 :> CommonNotFound),
      (StatusOK :> CommonOK),
      (StatusOK :> CommonOK) @@ (404 :> CommonNotFound) }

Config(common, fails) ==
    [CommonResponses |-> common, DefaultResponse |-> ConfiguredDefault,
     operationIDFails |-> fails]

DefaultConfig == Config(EmptyMap, {})

\* restful.ResponseError: code, message and the type of the model
ResponseErrors ==
    [code : StatusCodes, message : {"msg"},
     model : {"A", "C", "string"}]

\* the definitions of the operation specification: A depends on B, C has none
OperationDefinitions == ("A" :> <<"B">>) @@ ("B" :> <<>>)

VARIABLES
    opRoute,   \* the route handed to buildOperations
    opResult   \* what it returned

opVars == <<opRoute, opResult>>

NoOperation == [built |-> FALSE]

OpIdle ==
    /\ opRoute = Route("GET", FooPlain, <<>>)
    /\ opResult = NoOperation

OpInit ==
    /\ opRoute \in
         [method : {"GET", "POST"},
          path : {FooPlain},
          params : {<<>>, <<Pretty>>, <<FormParam>>},
          responseErrors : SeqsUpTo(ResponseErrors, MaxResponses),
          writeSample : {NoSample, "A"},
          consumes : {<<>>, <<"json">>, <<"json", "json">>}]
    /\ opResult = NoOperation

\* o.buildOperations(route, inPathCommonParamsMap) with nothing hoisted
BuildOperations ==
    /\ ~opResult.built
    /\ LET r == buildOperations(EmptySchemaState, opRoute, EmptyMap)
       IN  opResult' = [built |-> TRUE, op |-> r.op, err |-> r.err,
                        schemas |-> r.st.schemas]
    /\ UNCHANGED opRoute

OpNext == BuildOperations

\* ------------------------------------------------------- resolving type names
VARIABLES
    schemaState,  \* o.spec.Components.Schemas and the error that ended the build
    resolved,     \* type name -> the schema its first toSchema call returned
    last          \* the last toSchema call

schemaVars == <<schemaState, resolved, last>>

NoCall == [called |-> FALSE]

SchemaInit ==
    /\ schemaState = EmptySchemaState
    /\ resolved = EmptyMap
    /\ last = NoCall

InjectiveSeqsUpTo(S, n) ==
    {q \in SeqsUpTo(S, n) : \A i, j \in 1..Len(q) : q[i] = q[j] => i = j}

\* o.toSchema(name), as buildResponse calls it; an error ends the build
Resolve(name) ==
    /\ schemaState.err = NoError
    /\ LET r == toSchema([schemaState EXCEPT !.depth = 0], name)
       IN  /\ schemaState' = r.st
           /\ resolved' = IF name \in DOMAIN resolved
                          THEN resolved
                          ELSE (name :> r.schema) @@ resolved
           /\ last' = [called |-> TRUE, name |-> name, schema |-> r.schema,
                       err |-> r.err, again |-> name \in DOMAIN resolved,
                       before |-> schemaState.schemas, after |-> r.st.schemas,
                       depth |-> r.st.depth]

SchemaNext == \E name \in TypeNames \cup PrimitiveNames : Resolve(name)

\* ---------------------------------------------------------- specifications
envVars == <<definitions, definitionNames, config>>

vars == <<buildVars, hoistVars, opVars, schemaVars, envVars>>

\* the definitions and the namer of the test configuration
DefaultEnv ==
    /\ definitions = OperationDefinitions
    /\ definitionNames \in {n \in DefinitionNamers : n["C"] = DisplayC}
    /\ config = DefaultConfig

BuildIdle ==
    /\ webServices = <<>>
    /\ pc = "idle"
    /\ wsIdx = 1
    /\ commonParams = <<>>
    /\ groups = EmptyMap
    /\ pending = {}
    /\ paths = EmptyMap
    /\ installs = EmptyMap
    /\ err = NoError
    /\ result = NoResult

\* The build of a document from a list of web services.
Init == BuildInit /\ HoistIdle /\ OpIdle /\ SchemaInit /\ DefaultEnv

Next ==
    \/ SkipWebService /\ UNCHANGED <<hoistVars, opVars, schemaVars, envVars>>
    \/ EnterWebService /\ UNCHANGED <<hoistVars, opVars, schemaVars, envVars>>
    \/ \E rawPath \in pending :
          VisitGroup(rawPath) /\ UNCHANGED <<hoistVars, opVars, schemaVars, envVars>>
    \/ LeaveWebService /\ UNCHANGED <<hoistVars, opVars, schemaVars, envVars>>
    \/ FinishLoop /\ UNCHANGED <<hoistVars, opVars, schemaVars, envVars>>
    \/ Return /\ UNCHANGED <<hoistVars, opVars, schemaVars, envVars>>

Spec == Init /\ [][Next]_vars

\* Hoisting and operation building for the routes of one path template.
InitHoist == BuildIdle /\ HoistInit /\ OpIdle /\ SchemaInit /\ DefaultEnv

NextHoist ==
    \/ RegisterRoute /\ UNCHANGED <<buildVars, opVars, schemaVars, envVars>>
    \/ \E param \in ParamPool :
          RegisterParam(param) /\ UNCHANGED <<buildVars, opVars, schemaVars, envVars>>
    \/ FindCommonParameters /\ UNCHANGED <<buildVars, opVars, schemaVars, envVars>>
    \/ \E wsParams \in WebServiceParameters :
          AssemblePath(wsParams) /\ UNCHANGED <<buildVars, opVars, schemaVars, envVars>>

SpecHoist == InitHoist /\ [][NextHoist]_vars

\* One call of buildOperations, over routes and configurations.
InitOp ==
    /\ BuildIdle /\ HoistIdle /\ OpInit /\ SchemaInit
    /\ definitions = OperationDefinitions
    /\ definitionNames \in {n \in DefinitionNamers : n["C"] = DisplayC}
    /\ config \in {Config(common, fails) :
                      common \in CommonResponseTables, fails \in {{}, {"GET"}}}

NextOp == BuildOperations /\ UNCHANGED <<buildVars, hoistVars, schemaVars, envVars>>

SpecOp == InitOp /\ [][NextOp]_vars

\* The toSchema calls of one build, over dependency graphs and namers.
InitSchema ==
    /\ BuildIdle /\ HoistIdle /\ OpIdle /\ SchemaInit
    /\ \E registered \in SUBSET TypeNames :
          definitions \in [registered -> InjectiveSeqsUpTo(TypeNames, MaxDeps)]
    /\ definitionNames \in DefinitionNamers
    /\ config = DefaultConfig

NextSchema ==
    \E name \in TypeNames \cup PrimitiveNames :
       Resolve(name) /\ UNCHANGED <<buildVars, hoistVars, opVars, envVars>>

SpecSchema == InitSchema /\ [][NextSchema]_vars

\* ------------------------------------------------- claims about the build
\* the route groups the build does not skip: web service index and raw template
RetainedGroups ==
    {g \in [ws : 1..Len(webServices),
            raw : UNION {DOMAIN groupRoutesByPath(webServices[i].routes) :
                            i \in 1..Len(webServices)}] :
        /\ ~pathsToIgnoreHasPrefix(webServices[g.ws].rootPath)
        /\ g.raw \in DOMAIN groupRoutesByPath(webServices[g.ws].routes)
        /\ ~pathsToIgnoreHasPrefix(normalizePath(g.raw))}

RoutesOf(g) == groupRoutesByPath(webServices[g.ws].routes)[g.raw]

DuplicateRetainedPath ==
    \E g, h \in RetainedGroups : g # h /\ normalizePath(g.raw) = normalizePath(h.raw)

RetainedRoutes == UNION {Range(RoutesOf(g)) : g \in RetainedGroups}

RetainedWebServices ==
    {i \in 1..Len(webServices) : ~pathsToIgnoreHasPrefix(webServices[i].rootPath)}

\* the parameter declarations the build does not skip: those of the retained
\* routes and those of the web services themselves
RetainedDeclarations ==
    UNION ({Range(r.params) : r \in RetainedRoutes}
           \cup {Range(webServices[i].pathParameters) : i \in RetainedWebServices})

\* building the parameters of a retained web service, or hoisting those of a
\* retained route group, can fail
ParameterFault ==
    \/ \E i \in RetainedWebServices :
           buildParameters(webServices[i].pathParameters).err # NoError
    \/ \E g \in RetainedGroups :
           \E found \in findCommonParameters(RoutesOf(g)) : found.err # NoError

Done == pc = "done"

\* C3 as stated: a build with two retained route groups that resolve to one
\* path template fails with DuplicatePath.
C3_DuplicateFailsWithDuplicatePath ==
    (Done /\ DuplicateRetainedPath) => result.err = DuplicatePath

\* C3 amended: a build with two retained route groups that resolve to one path
\* template fails: with DuplicatePath when no parameter of a retained web
\* service or route group fails to build, and otherwise with DuplicatePath or
\* with the parameter error met before the second group is installed; and no
\* template is ever assigned into the document twice.
C3_DuplicateFailsBuild ==
    /\ (Done /\ DuplicateRetainedPath) =>
           result.err \in {DuplicatePath} \cup ParameterErrors
    /\ (Done /\ DuplicateRetainedPath /\ ~ParameterFault) =>
           result.err = DuplicatePath
    /\ \A p \in DOMAIN paths : InstallCount(installs, p) = 1
    /\ DOMAIN installs = DOMAIN paths

\* a build that met the second group of a template and refused it
C3_Witness ==
    /\ Done
    /\ DuplicateRetainedPath
    /\ result.err = DuplicatePath
    /\ paths # EmptyMap

\* C4: every build whose retained routes or web services declare a path
\* parameter with required = false fails (the claim names the error,
\* InvalidRequiredness; a build that returns no error refutes it whatever the
\* name).
C4_OptionalPathParameterFails ==
    (Done /\ \E d \in RetainedDeclarations :
                 d.kind = PathParameterKind /\ ~d.required)
        => result.err # NoError

\* C5: every build whose retained routes declare a parameter of a kind other
\* than path, query and header fails (the claim names the error,
\* UnsupportedParameterKind; a build that returns no error refutes it whatever
\* the name).
C5_UnsupportedKindFails ==
    (Done /\ \E r \in RetainedRoutes : \E d \in Range(r.params) :
                 d.kind \notin {PathParameterKind, QueryParameterKind,
                                HeaderParameterKind})
        => result.err # NoError

\* the HTTP methods of the retained routes that resolve to the template
MethodsServing(path) ==
    {r.method : r \in {x \in RetainedRoutes : normalizePath(x.path) = path}}

\* C9: after a successful build every installed Path carries one Operation for
\* each route that shares the path, one per HTTP method.
C9_PathCarriesOperations ==
    (Done /\ result.err = NoError) =>
        \A p \in DOMAIN result.spec.paths :
            DOMAIN result.spec.paths[p].operations = MethodsServing(p)

\* C10: when the build fails, the entry point delivers no document that holds
\* installed paths beside the error.
C10_NoDocumentWithError ==
    (Done /\ result.err # NoError) =>
        (result.spec.isNil \/ result.spec.paths = EmptyMap)

\* ------------------------------------------------ claims about hoisting
Keys == {mapKeyFromParam(p) : p \in ParamPool}

\* the declarations of the key on route i
DeclarationsOn(i, key) ==
    {p \in Range(hRoutes[i].params) : mapKeyFromParam(p) = key}

DeclaredOnEvery(key) == \A i \in 1..Len(hRoutes) : DeclarationsOn(i, key) # {}

\* on every route, and with the same parameter data on all of them
DeclaredIdentically(key) ==
    /\ DeclaredOnEvery(key)
    /\ Cardinality(UNION {DeclarationsOn(i, key) : i \in 1..Len(hRoutes)}) = 1

\* the last route that declares the key
LastDeclaring(key) ==
    CHOOSE i \in 1..Len(hRoutes) :
        /\ DeclarationsOn(i, key) # {}
        /\ \A j \in (i + 1)..Len(hRoutes) : DeclarationsOn(j, key) = {}

Hoisted == hPhase \in {"found", "assembled"}

\* C1 as stated: after findCommonParameters succeeds, a key is hoisted iff every
\* route declares it with identical parameter data and its kind is not body.
C1_HoistedIffDeclaredIdentically ==
    Hoisted =>
        \A key \in Keys :
            key \in DOMAIN hFound.params
                <=> (DeclaredIdentically(key) /\ key[2] # BodyParameterKind)

\* C1 amended: after findCommonParameters succeeds, a key is hoisted iff every
\* route declares it and its kind is not body, whether or not the declarations
\* carry the same data; the hoisted parameter is built from the declaration of
\* the last route.
C1_HoistedIffDeclaredOnEveryRoute ==
    Hoisted =>
        /\ \A key \in Keys :
              key \in DOMAIN hFound.params
                  <=> (DeclaredOnEvery(key) /\ key[2] # BodyParameterKind)
        /\ \A key \in DOMAIN hFound.params :
              \E p \in DeclarationsOn(LastDeclaring(key), key) :
                  hFound.params[key] = buildParameter(p).param

\* two routes: one key hoisted although their declarations differ, one key of
\* a single route left to it, and a body parameter of both not hoisted
C1_Witness ==
    /\ hPhase = "found"
    /\ Len(hRoutes) = 2
    /\ \E key \in DOMAIN hFound.params : ~DeclaredIdentically(key)
    /\ \E key \in Keys :
          /\ DeclarationsOn(1, key) # {}
          /\ ~DeclaredOnEvery(key)
          /\ key \notin DOMAIN hFound.params

\* the key of a parameter of the document
DocumentKey(p) == <<p.name, p.in>>

Assembled ==
    /\ hPhase = "assembled"
    /\ \A i \in 1..Len(hRoutes) : hOperations[i].err = NoError

NothingDeclared ==
    /\ opResult.built
    /\ opResult.err = NoError
    /\ opRoute.responseErrors = <<>>
    /\ opRoute.writeSample = NoSample

\* C8 as stated: a route with no declared error response and no write sample
\* yields an operation with the configured default response and no
\* status-coded response, whatever the common-responses table.
C8_DefaultWhateverTheTable ==
    NothingDeclared =>
        /\ opResult.op.default = ConfiguredDefault
        /\ opResult.op.responses = EmptyMap

\* C8 amended: such a route yields the configured default response and no
\* status-coded response when the common-responses table is empty; with a
\* table that has entries, the operation carries exactly those entries and no
\* default response.
C8_DefaultOnlyWithEmptyTable ==
    NothingDeclared =>
        IF config.CommonResponses = EmptyMap
        THEN /\ opResult.op.default = ConfiguredDefault
             /\ opResult.op.responses = EmptyMap
        ELSE /\ opResult.op.default = NoDefault
             /\ opResult.op.responses = config.CommonResponses

\* the fallback taken: nothing declared, an empty table, the default response
C8_Witness ==
    /\ NothingDeclared
    /\ config.CommonResponses = EmptyMap
    /\ opResult.op.default = ConfiguredDefault

\* an operation that buildOperations returned without an error
OperationBuilt == opResult.built /\ opResult.err = NoError

\* the status codes the route declares itself: those of its error responses,
\* or 200 for its write sample when it declares no error response
ExplicitCodes ==
    IF opRoute.responseErrors # <<>>
    THEN {opRoute.responseErrors[i].code : i \in 1..Len(opRoute.responseErrors)}
    ELSE IF opRoute.writeSample # NoSample THEN {StatusOK} ELSE {}

\* the last error response of the route that declares the code
LastDeclared(code) ==
    opRoute.responseErrors[
        CHOOSE i \in 1..Len(opRoute.responseErrors) :
            /\ opRoute.responseErrors[i].code = code
            /\ \A j \in (i + 1)..Len(opRoute.responseErrors) :
                   opRoute.responseErrors[j].code # code]

\* the response the route itself gives for a code it declares
RouteResponse(code) ==
    IF opRoute.responseErrors # <<>>
    THEN buildResponse(EmptySchemaState, LastDeclared(code).model,
                       LastDeclared(code).message, opRoute.consumes).response
    ELSE buildResponse(EmptySchemaState, opRoute.writeSample, "OK",
                       opRoute.consumes).response

\* C11: in every operation built, a status code the route declares (by an error
\* response, or 200 by its write sample) keeps the response built from the
\* route, every code of the common-responses table the route does not declare
\* carries the table's entry unchanged, and no other code is present.
C11_CommonNeverOverrides ==
    OperationBuilt =>
        /\ DOMAIN opResult.op.responses =
               ExplicitCodes \cup DOMAIN config.CommonResponses
        /\ \A code \in ExplicitCodes :
               opResult.op.responses[code] = RouteResponse(code)
        /\ \A code \in DOMAIN config.CommonResponses \ ExplicitCodes :
               opResult.op.responses[code] = config.CommonResponses[code]

\* a route that declares 404 itself, built with a table that has entries for
\* 404 and 200: its own 404 response is kept and the table's 200 is copied in
C11_Witness ==
    /\ OperationBuilt
    /\ ExplicitCodes = {404}
    /\ DOMAIN config.CommonResponses = {StatusOK, 404}
    /\ opResult.op.responses[404] = RouteResponse(404)
    /\ opResult.op.responses[404] # config.CommonResponses[404]
    /\ opResult.op.responses[StatusOK] = config.CommonResponses[StatusOK]

\* ------------------------------------------ claims about schema resolution
\* C6: a second toSchema call for a type name with a definition returns the
\* schema, and so the reference string, that the first returned and leaves the
\* schema map as it was; and whatever the dependency paths that lead to a
\* display name, the map was assigned under it exactly once.
C6_ResolveTwice ==
    /\ (last.called /\ last.again /\ last.err = NoError /\ last.name \in TypeNames) =>
           /\ last.schema = resolved[last.name]
           /\ last.schema.ref = SchemaPrefix \o EscapeJsonPointer(definitionNames[last.name])
           /\ last.after = last.before
           /\ definitionNames[last.name] \in DOMAIN schemaState.schemas
    /\ DOMAIN schemaState.inserts = DOMAIN schemaState.schemas
    /\ \A u \in DOMAIN schemaState.schemas : schemaState.inserts[u] = 1

\* A resolved twice, where C is reached from A directly and through B
C6_Witness ==
    /\ last.called /\ last.again /\ last.err = NoError
    /\ last.name = "A"
    /\ DOMAIN definitions = TypeNames
    /\ definitions["A"] = <<"B", "C">>
    /\ definitions["B"] = <<"C">>
    /\ Cardinality(DOMAIN schemaState.schemas) = 3

\* A depends on B, which depends back on A
TwoCycle ==
    /\ {"A", "B"} \subseteq DOMAIN definitions
    /\ definitions["A"] = <<"B">>
    /\ definitions["B"] = <<"A">>

\* C7: whatever the dependency graph, a toSchema call returns without
\* outgrowing the stack, its frames never nested deeper than one more than the
\* number of definitions; and with A depending on B and B on A, resolving A into
\* an empty map succeeds and leaves exactly two entries.
C7_CycleSafe ==
    /\ schemaState.err # StackOverflow
    /\ last.called => last.depth <= Cardinality(DOMAIN definitions) + 1
    /\ (last.called /\ last.name = "A" /\ last.before = EmptyMap /\ TwoCycle) =>
           /\ last.err = NoError
           /\ Cardinality(DOMAIN last.after) = 2

\* the two-type cycle, resolved from A
C7_Witness ==
    /\ last.called
    /\ last.name = "A"
    /\ last.before = EmptyMap
    /\ TwoCycle
    /\ last.err = NoError
    /\ last.depth = 3

\* the dependency names of a type name; none when it has no definition
DependenciesOf(name) ==
    IF name \in DOMAIN definitions THEN Range(definitions[name]) ELSE {}

\* the type names reached from those of S in at most n steps
RECURSIVE ReachedFrom(_, _)
ReachedFrom(S, n) ==
    IF n = 0
    THEN S
    ELSE ReachedFrom(S \cup UNION {DependenciesOf(t) : t \in S}, n - 1)

\* the type names transitively reachable through dependency lists
Reachable(name) == ReachedFrom({name}, Cardinality(TypeNames))

\* a toSchema call that returned without an error
Resolved == last.called /\ last.err = NoError

\* every reference handed out so far is inline, or points into the schema map
ReferencesPointIntoMap ==
    \A n \in DOMAIN resolved :
        \/ resolved[n].isNil
        \/ resolved[n].type # <<>> /\ resolved[n].ref = <<>>
        \/ \E u \in DOMAIN schemaState.schemas :
               resolved[n].ref = SchemaPrefix \o EscapeJsonPointer(u)

\* resolving a primitive type name leaves the schema map as it was
PrimitiveMutatesNothing ==
    (last.called /\ last.name \in PrimitiveNames) =>
        /\ last.err = NoError
        /\ last.after = last.before
        /\ last.schema.type # <<>>

\* no two type names share a display name
InjectiveNamer ==
    \A a, b \in TypeNames : definitionNames[a] = definitionNames[b] => a = b

\* C12 as stated: after a successful toSchema call for a type name that is not
\* primitive, the schema map has an entry under the display name of the type
\* and of every type reachable from it through dependency lists; every
\* reference handed out points into the map; a primitive mutates nothing.
C12_ReachableAllPresent ==
    /\ (Resolved /\ last.name \in TypeNames) =>
           \A t \in Reachable(last.name) :
               definitionNames[t] \in DOMAIN last.after
    /\ (schemaState.err = NoError) => ReferencesPointIntoMap
    /\ PrimitiveMutatesNothing

\* C12 amended: after a successful toSchema call for a type name that is not
\* primitive, the schema map has an entry under the display name of the type,
\* and for every entry an entry under the display name of each dependency of
\* the type whose definition the entry holds, the first one resolved under that
\* display name; when no two type names share a display name, that is every
\* type reachable from the resolved one.  Every reference handed out points
\* into the map; a primitive mutates nothing.
C12_ClosedUnderStoredDependencies ==
    /\ (Resolved /\ last.name \in TypeNames) =>
           /\ definitionNames[last.name] \in DOMAIN last.after
           /\ InjectiveNamer =>
                  \A t \in Reachable(last.name) :
                      definitionNames[t] \in DOMAIN last.after
    /\ (schemaState.err = NoError) =>
           /\ \A u \in DOMAIN schemaState.schemas :
                  \A d \in DependenciesOf(schemaState.schemas[u].definitionOf) :
                      definitionNames[d] \in DOMAIN schemaState.schemas
           /\ ReferencesPointIntoMap
    /\ PrimitiveMutatesNothing

\* A resolved into an empty map, with B reached from A and C only through B,
\* under three distinct display names: all three entries are present
C12_Witness ==
    /\ Resolved
    /\ last.name = "A"
    /\ last.before = EmptyMap
    /\ InjectiveNamer
    /\ DOMAIN definitions = TypeNames
    /\ definitions["A"] = <<"B">>
    /\ definitions["B"] = <<"C">>
    /\ \A t \in TypeNames : definitionNames[t] \in DOMAIN last.after

====
